---- MODULE Spec2Model ----
(***************************************************************************)
(* Model of the computational core of the Trading Expectancy Calculator    *)
(* (src/app.py): run_simulation and calculate_losing_streak.               *)
(*                                                                         *)
(* Python floats are modelled as binary floating-point numbers with        *)
(* MantBits significant bits and round-to-nearest, ties-to-even, the IEEE  *)
(* 754 rule of the interpreter's doubles at a reduced precision.  A float  *)
(* is the pair <<m, e>> standing for m * 2^e, kept canonical (m odd, or    *)
(* <<0, 0>>), so that equality of pairs is equality of numbers.  The       *)
(* exponent is unbounded: the inputs enumerated below stay as far from     *)
(* overflow and underflow as the form's input ranges (app.py 194-238) keep *)
(* the doubles of the program.                                             *)
(***************************************************************************)
EXTENDS Integers, Sequences, FiniteSets, TLC

\* ------------------------------------------------------------------ bounds
MantBits == 5
MaxTrades == 4
LogFracBits == 10

\* ------------------------------------------------------------------ state
VARIABLES pc, account_balance, win_rate, reward_risk, risk_percent,
          trade_count, outcomes, i, current_balance, peak_balance,
          max_drawdown, win_count, results, summary,
          streak_win_rate, sample_size, losing_streak,
          rng_seed, rng_state, runs

params == <<account_balance, win_rate, reward_risk, risk_percent,
            trade_count, outcomes>>

locals == <<i, current_balance, peak_balance, max_drawdown, win_count,
            results>>

streak == <<streak_win_rate, losing_streak>>

par == <<rng_seed, rng_state, runs>>

vars == <<pc, params, locals, summary, streak, sample_size, par>>

\* ------------------------------------------------- floating-point numbers
RECURSIVE Pow2(_)
Pow2(k) == IF k <= 0 THEN 1 ELSE 2 * Pow2(k - 1)

IAbs(n) == IF n < 0 THEN -n ELSE n

IMin(a, b) == IF a <= b THEN a ELSE b

RECURSIVE BitLen(_)
BitLen(n) == IF n = 0 THEN 0 ELSE 1 + BitLen(n \div 2)

RECURSIVE Norm(_, _)
Norm(m, e) ==
    IF m = 0 THEN <<0, 0>>
    ELSE IF m % 2 = 0 THEN Norm(m \div 2, e + 1)
    ELSE <<m, e>>

\* n * 2^e rounded to MantBits significant bits, ties to even.
Round(n, e) ==
    LET a == IAbs(n)
        k == BitLen(a) - MantBits
    IN  IF k <= 0 THEN Norm(n, e)
        ELSE LET q    == a \div Pow2(k)
                 r    == a % Pow2(k)
                 half == Pow2(k - 1)
                 up   == r > half \/ (r = half /\ q % 2 = 1)
                 m    == IF up THEN q + 1 ELSE q
             IN  Norm(IF n < 0 THEN -m ELSE m, e + k)

\* The exact sum and product of two floats (no rounding): the real number.
ExactAdd(a, b) ==
    IF a[1] = 0 THEN b
    ELSE IF b[1] = 0 THEN a
    ELSE LET e == IMin(a[2], b[2])
         IN  Norm(a[1] * Pow2(a[2] - e) + b[1] * Pow2(b[2] - e), e)

ExactMul(a, b) == Norm(a[1] * b[1], a[2] + b[2])

FromInt(n) == Round(n, 0)

Zero == <<0, 0>>

One == <<1, 0>>

Hundred == FromInt(100)

FNeg(a) == <<-a[1], a[2]>>

FAbs(a) == <<IAbs(a[1]), a[2]>>

FAdd(a, b) ==
    LET s == ExactAdd(a, b) IN Round(s[1], s[2])

FSub(a, b) == FAdd(a, FNeg(b))

FMul(a, b) == Round(a[1] * b[1], a[2] + b[2])

\* a / b for b # 0: the quotient to 2*MantBits+2 extra bits plus a sticky
\* bit, then rounded.
FDiv(a, b) ==
    LET s   == 2 * MantBits + 2
        n   == IAbs(a[1]) * Pow2(s)
        d   == IAbs(b[1])
        q   == n \div d
        st  == IF n % d = 0 THEN 0 ELSE 1
        neg == (a[1] < 0) # (b[1] < 0)
        v   == 2 * q + st
    IN  Round(IF neg THEN -v ELSE v, a[2] - b[2] - s - 1)

Sign(a) == IF a[1] > 0 THEN 1 ELSE IF a[1] < 0 THEN -1 ELSE 0

FLt(a, b) == Sign(ExactAdd(a, FNeg(b))) < 0

FGt(a, b) == FLt(b, a)

FGe(a, b) == ~FLt(a, b)

FLe(a, b) == ~FLt(b, a)

\* math.log on a positive float: log2 by repeated squaring in fixed point
\* with LogFracBits fractional bits, times ln 2 (2839/4096), rounded.
RECURSIVE Log2Frac(_, _, _)
Log2Frac(y, k, acc) ==
    IF k = 0 THEN acc
    ELSE LET y2 == (y * y) \div Pow2(LogFracBits)
         IN  IF y2 >= 2 * Pow2(LogFracBits)
             THEN Log2Frac(y2 \div 2, k - 1, 2 * acc + 1)
             ELSE Log2Frac(y2, k - 1, 2 * acc)

Log(x) ==
    LET b  == BitLen(x[1])
        ip == x[2] + b - 1
        y0 == x[1] * Pow2(LogFracBits - (b - 1))
        l2 == ip * Pow2(LogFracBits) + Log2Frac(y0, LogFracBits, 0)
    IN  Round(l2 * 2839, -(LogFracBits + 12))

\* ------------------------------------------------ calculate_losing_streak
\* The result of a call: a number, float('inf'), or the ValueError that
\* math.log raises on a non-positive argument.
LosingStreakLogFirst(wr, n) ==
    IF n <= 0 THEN [tag |-> "ValueError", val |-> Zero]
    ELSE IF FGe(wr, One) THEN [tag |-> "value", val |-> Zero]
    ELSE LET denominator == Log(FDiv(One, FSub(One, wr)))
         IN  IF denominator = Zero THEN [tag |-> "inf", val |-> Zero]
             ELSE [tag |-> "value", val |-> FDiv(Log(FromInt(n)), denominator)]

LosingStreakNoZeroGuard(wr, n) ==
    IF FGe(wr, One) THEN [tag |-> "value", val |-> Zero]
    ELSE LET denominator == Log(FDiv(One, FSub(One, wr)))
         IN  IF n <= 0 THEN [tag |-> "ValueError", val |-> Zero]
             ELSE IF denominator = Zero
             THEN [tag |-> "ZeroDivisionError", val |-> Zero]
             ELSE [tag |-> "value", val |-> FDiv(Log(FromInt(n)), denominator)]

LosingStreak(wr, n) ==
    IF FGe(wr, One) THEN [tag |-> "value", val |-> Zero]
    ELSE LET denominator == Log(FDiv(One, FSub(One, wr)))
         IN  IF denominator = Zero THEN [tag |-> "inf", val |-> Zero]
             ELSE IF n <= 0 THEN [tag |-> "ValueError", val |-> Zero]
             ELSE [tag |-> "value", val |-> FDiv(Log(FromInt(n)), denominator)]

\* --------------------------------------------------------- run_simulation
\* One iteration of the loop body, as operators over the carried state.
RiskAmountOfInitial(balance, rp) == FMul(account_balance, rp)

RiskAmount(balance, rp) == FMul(balance, rp)

PnlLossTimesRewardRisk(outcome, risk, rr) ==
    IF outcome = "Win" THEN FMul(risk, rr) ELSE FNeg(FMul(risk, rr))

Pnl(outcome, risk, rr) ==
    IF outcome = "Win" THEN FMul(risk, rr) ELSE FNeg(risk)

NewBalanceAddsTwice(balance, pnl) == FAdd(FAdd(balance, pnl), pnl)

NewBalance(balance, pnl) == FAdd(balance, pnl)

NewPeakFollowsBalance(peak, balance) == balance

NewPeakKeepsOld(peak, balance) == peak

NewPeak(peak, balance) == IF FGt(balance, peak) THEN balance ELSE peak

DrawdownAsFraction(peak, balance) ==
    IF FGt(peak, Zero) THEN FDiv(FSub(peak, balance), peak) ELSE Zero

DrawdownGuardsOnlyZero(peak, balance) ==
    IF peak # Zero
    THEN FMul(FDiv(FSub(peak, balance), peak), Hundred)
    ELSE Zero

Drawdown(peak, balance) ==
    IF FGt(peak, Zero)
    THEN FMul(FDiv(FSub(peak, balance), peak), Hundred)
    ELSE Zero

NewMaxDrawdownFollowsCurrent(maxdd, dd) == dd

NewMaxDrawdown(maxdd, dd) == IF FGt(dd, maxdd) THEN dd ELSE maxdd

TradeRecordPreAfterUpdate(n, outcome, pre, risk, pnl, post, dd, peak) ==
    [TradeNumber |-> n, WinLoss |-> outcome, PreBalance |-> post,
     RiskAmount |-> risk, PnL |-> pnl, AfterBalance |-> post,
     Drawdown |-> dd, PeakBalance |-> peak]

TradeRecordZeroBased(n, outcome, pre, risk, pnl, post, dd, peak) ==
    [TradeNumber |-> n - 1, WinLoss |-> outcome, PreBalance |-> pre,
     RiskAmount |-> risk, PnL |-> pnl, AfterBalance |-> post,
     Drawdown |-> dd, PeakBalance |-> peak]

TradeRecord(n, outcome, pre, risk, pnl, post, dd, peak) ==
    [TradeNumber |-> n, WinLoss |-> outcome, PreBalance |-> pre,
     RiskAmount |-> risk, PnL |-> pnl, AfterBalance |-> post,
     Drawdown |-> dd, PeakBalance |-> peak]

\* df[df['Win/Loss'] == o]['P&L'].mean(): the sum in row order over the count.
RECURSIVE SumPnl(_, _)
SumPnl(rows, o) ==
    IF rows = <<>> THEN Zero
    ELSE LET r == rows[Len(rows)]
             s == SumPnl(SubSeq(rows, 1, Len(rows) - 1), o)
         IN  IF r.WinLoss = o THEN FAdd(s, r.PnL) ELSE s

Count(rows, o) == Cardinality({k \in 1..Len(rows) : rows[k].WinLoss = o})

MeanPnl(rows, o) == FDiv(SumPnl(rows, o), FromInt(Count(rows, o)))

AvgWin(rows, wins) == IF wins > 0 THEN MeanPnl(rows, "Win") ELSE Zero

AvgLoss(rows, wins, n) ==
    IF n - wins > 0 THEN FAbs(MeanPnl(rows, "Loss")) ELSE Zero

ExpectancyRealizedRate(wr, avg_win, avg_loss) ==
    LET realized == FDiv(FromInt(win_count), FromInt(trade_count))
    IN  FSub(FMul(realized, avg_win), FMul(FSub(One, realized), avg_loss))

Expectancy(wr, avg_win, avg_loss) ==
    FSub(FMul(wr, avg_win), FMul(FSub(One, wr), avg_loss))

ExpectancyRKeepsExpectancy(expectancy, avg_loss) ==
    IF FGt(avg_loss, Zero) THEN FDiv(expectancy, avg_loss) ELSE expectancy

ExpectancyR(expectancy, avg_loss) ==
    IF FGt(avg_loss, Zero) THEN FDiv(expectancy, avg_loss) ELSE Zero

MinWinRateOfRiskPercent(rr) == FDiv(One, FAdd(One, risk_percent))

MinWinRate(rr) == FDiv(One, FAdd(One, rr))

Profit(balance, ab) == FSub(balance, ab)

Summary(rows, balance, maxdd, wins, ab, wr, rr, n) ==
    LET actual_win_rate == FDiv(FromInt(wins), FromInt(n))
        profit          == Profit(balance, ab)
        return_pct      == FMul(FDiv(profit, ab), Hundred)
        avg_win         == AvgWin(rows, wins)
        avg_loss        == AvgLoss(rows, wins, n)
        expectancy      == Expectancy(wr, avg_win, avg_loss)
        expectancy_r    == ExpectancyR(expectancy, avg_loss)
        min_win_rate    == MinWinRate(rr)
    IN  [FinalBalance |-> balance, Profit |-> profit, Return |-> return_pct,
         MaxDrawdown |-> maxdd, Expectancy |-> expectancy,
         ExpectancyR |-> expectancy_r,
         ActualWinRate |-> FMul(actual_win_rate, Hundred),
         MinimumWinRate |-> FMul(min_win_rate, Hundred), Trades |-> n]

\* ----------------------------------------------------------------- inputs
\* Floats k / 4 and the integers used as arguments.
Quarter(k) == Round(k, -2)

Balances == {FromInt(-8), Zero, FromInt(10), FromInt(100)}

WinRates == {Zero, Quarter(1), Quarter(2), One}

RewardRisks == {Quarter(2), FromInt(2), FromInt(3)}

RiskPercents == {Quarter(1), Quarter(2), One}

StreakWinRates == {FromInt(-1), Zero, Quarter(1), Quarter(2), Quarter(3),
                   One, Quarter(5)}

SampleSizes == {-1, 0, 1, 2, 10, 100}

\* np.random.choice(['Win', 'Loss'], size=n, p=[wr, 1 - wr]): every sequence
\* of n outcomes that has positive probability.
Outcomes(wr, n) ==
    {o \in [1..n -> {"Win", "Loss"}] :
        \A k \in 1..n : (o[k] = "Win" => FGt(wr, Zero))
                     /\ (o[k] = "Loss" => FLt(wr, One))}

\* ------------------------------------------------------------ transitions
NoSummary == [FinalBalance |-> Zero, Profit |-> Zero, Return |-> Zero,
              MaxDrawdown |-> Zero, Expectancy |-> Zero,
              ExpectancyR |-> Zero, ActualWinRate |-> Zero,
              MinimumWinRate |-> Zero, Trades |-> 0]

\* ---------------------------------------------- the shared random generator
\* np.random.choice draws from numpy's module-level generator, one state for
\* the whole process.  It is modelled as a full-period linear congruential
\* generator on 0..15; np.random.seed(s) sets its state to s.
Seeds == 0..15

RngNext(s) == (5 * s + 3) % 16

RECURSIVE RngAfter(_, _)
RngAfter(s, n) == IF n = 0 THEN s ELSE RngAfter(RngNext(s), n - 1)

\* choice(['Win', 'Loss'], size=n, p=[wr, 1 - wr]) from generator state s:
\* sample k is Win iff its uniform variate, state / 16, is below wr.
RECURSIVE DrawOutcomes(_, _, _)
DrawOutcomes(s, wr, n) ==
    IF n = 0 THEN <<>>
    ELSE LET s1 == RngNext(s)
         IN  <<IF FLt(Round(s1, -4), wr) THEN "Win" ELSE "Loss">>
                \o DrawOutcomes(s1, wr, n - 1)

\* ------------------------------------------- several run_simulation calls
\* The invocations of run_simulation that may be in progress at once, each
\* with its own arguments and local variables.
RunIds == {1, 2}

ParBalances == {FromInt(100)}

ParWinRates == {Quarter(1), Quarter(2)}

ParRewardRisks == {FromInt(2)}

ParRiskPercents == {Quarter(1)}

IdleRun ==
    [pc |-> "idle", account_balance |-> Zero, win_rate |-> Zero,
     reward_risk |-> Zero, risk_percent |-> Zero, trade_count |-> 0,
     outcomes |-> <<>>, i |-> 0, current_balance |-> Zero,
     peak_balance |-> Zero, max_drawdown |-> Zero, win_count |-> 0,
     results |-> <<>>, summary |-> NoSummary]

\* Lines 78-92: the locals are initialised and the outcomes are drawn from
\* generator state s.
StartRun(s, ab, wr, rr, rp, n) ==
    [pc |-> "loop", account_balance |-> ab, win_rate |-> wr,
     reward_risk |-> rr, risk_percent |-> rp, trade_count |-> n,
     outcomes |-> DrawOutcomes(s, wr, n), i |-> 0, current_balance |-> ab,
     peak_balance |-> ab, max_drawdown |-> Zero, win_count |-> 0,
     results |-> <<>>, summary |-> NoSummary]

\* Lines 95-133: one iteration of the loop on the locals of one invocation.
StepRun(run) ==
    LET outcome == run.outcomes[run.i + 1]
        pre     == run.current_balance
        risk    == RiskAmount(run.current_balance, run.risk_percent)
        pnl     == Pnl(outcome, risk, run.reward_risk)
        post    == NewBalance(run.current_balance, pnl)
        peak    == NewPeak(run.peak_balance, post)
        dd      == Drawdown(peak, post)
    IN  [run EXCEPT
           !.win_count = IF outcome = "Win" THEN @ + 1 ELSE @,
           !.current_balance = post,
           !.peak_balance = peak,
           !.max_drawdown = NewMaxDrawdown(@, dd),
           !.results = Append(@, TradeRecord(run.i + 1, outcome, pre, risk,
                                             pnl, post, dd, peak)),
           !.i = @ + 1]

\* Lines 136-165: the summary is computed and the invocation returns.
FinishRun(run) ==
    [run EXCEPT
       !.summary = Summary(run.results, run.current_balance,
                           run.max_drawdown, run.win_count,
                           run.account_balance, run.win_rate,
                           run.reward_risk, run.trade_count),
       !.pc = "returned"]

Init ==
    /\ pc = "idle"
    /\ account_balance = Zero /\ win_rate = Zero /\ reward_risk = Zero
    /\ risk_percent = Zero /\ trade_count = 0 /\ outcomes = <<>>
    /\ i = 0 /\ current_balance = Zero /\ peak_balance = Zero
    /\ max_drawdown = Zero /\ win_count = 0 /\ results = <<>>
    /\ summary = NoSummary
    /\ streak_win_rate = Zero /\ sample_size = 100
    /\ losing_streak = [tag |-> "none", val |-> Zero]
    /\ rng_seed = 0 /\ rng_state = 0
    /\ runs = [r \in RunIds |-> IdleRun]

\* run_simulation is entered: the tracking variables are initialised and the
\* outcome sequence is drawn.
RunSimulation(ab, wr, rr, rp, n, o) ==
    /\ pc = "idle"
    /\ account_balance' = ab /\ win_rate' = wr /\ reward_risk' = rr
    /\ risk_percent' = rp /\ trade_count' = n /\ outcomes' = o
    /\ results' = <<>>
    /\ current_balance' = ab
    /\ peak_balance' = ab
    /\ max_drawdown' = Zero
    /\ win_count' = 0
    /\ i' = 0
    /\ pc' = "loop"
    /\ UNCHANGED <<summary, streak, sample_size>>
    /\ UNCHANGED par

\* One iteration of `for i in range(trade_count)`.
Trade ==
    /\ pc = "loop"
    /\ i < trade_count
    /\ LET outcome == outcomes[i + 1]
           pre     == current_balance
           risk    == RiskAmount(current_balance, risk_percent)
           pnl     == Pnl(outcome, risk, reward_risk)
           post    == NewBalance(current_balance, pnl)
           peak    == NewPeak(peak_balance, post)
           dd      == Drawdown(peak, post)
       IN  /\ win_count' = IF outcome = "Win" THEN win_count + 1 ELSE win_count
           /\ current_balance' = post
           /\ peak_balance' = peak
           /\ max_drawdown' = NewMaxDrawdown(max_drawdown, dd)
           /\ results' = Append(results,
                  TradeRecord(i + 1, outcome, pre, risk, pnl, post, dd, peak))
    /\ i' = i + 1
    /\ UNCHANGED <<pc, params, summary, streak, sample_size>>
    /\ UNCHANGED par

\* The loop is exhausted and the summary is computed and returned.
Summarise ==
    /\ pc = "loop"
    /\ i >= trade_count
    /\ account_balance # Zero
    /\ summary' = Summary(results, current_balance, max_drawdown, win_count,
                          account_balance, win_rate, reward_risk, trade_count)
    /\ pc' = "returned"
    /\ UNCHANGED <<params, locals, streak, sample_size>>
    /\ UNCHANGED par

\* profit / account_balance with account_balance = 0: ZeroDivisionError
\* leaves run_simulation before any summary exists.
SummariseRaises ==
    /\ pc = "loop"
    /\ i >= trade_count
    /\ account_balance = Zero
    /\ pc' = "ZeroDivisionError"
    /\ UNCHANGED <<params, locals, summary, streak, sample_size>>
    /\ UNCHANGED par

\* The losing-streak form is submitted with sample size n (stored in the
\* session state) and calculate_losing_streak(wr, sample_size) is called.
CalculateLosingStreak(wr, n) ==
    /\ pc = "idle"
    /\ sample_size' = n
    /\ streak_win_rate' = wr
    /\ losing_streak' = LosingStreak(wr, n)
    /\ pc' = "streak"
    /\ UNCHANGED <<params, locals, summary>>
    /\ UNCHANGED par

Next ==
    \/ \E ab \in Balances, wr \in WinRates, rr \in RewardRisks,
          rp \in RiskPercents, n \in 1..MaxTrades :
          \E o \in Outcomes(wr, n) : RunSimulation(ab, wr, rr, rp, n, o)
    \/ Trade
    \/ Summarise
    \/ SummariseRaises
    \/ \E wr \in StreakWinRates, n \in SampleSizes :
          CalculateLosingStreak(wr, n)

Spec == Init /\ [][Next]_vars

\* ------------------------------------------------ interleaved invocations
\* The generator is seeded, then the invocations of RunIds run interleaved,
\* a step of one between the steps of the other.
InitPar ==
    /\ pc = "idle"
    /\ account_balance = Zero /\ win_rate = Zero /\ reward_risk = Zero
    /\ risk_percent = Zero /\ trade_count = 0 /\ outcomes = <<>>
    /\ i = 0 /\ current_balance = Zero /\ peak_balance = Zero
    /\ max_drawdown = Zero /\ win_count = 0 /\ results = <<>>
    /\ summary = NoSummary
    /\ streak_win_rate = Zero /\ sample_size = 100
    /\ losing_streak = [tag |-> "none", val |-> Zero]
    /\ rng_seed \in Seeds
    /\ rng_state = rng_seed
    /\ runs = [r \in RunIds |-> IdleRun]

single == <<pc, params, locals, summary, streak, sample_size>>

ParRunSimulation(r, ab, wr, rr, rp, n) ==
    /\ runs[r].pc = "idle"
    /\ runs' = [runs EXCEPT ![r] = StartRun(rng_state, ab, wr, rr, rp, n)]
    /\ rng_state' = RngAfter(rng_state, n)
    /\ UNCHANGED <<single, rng_seed>>

ParTrade(r) ==
    /\ runs[r].pc = "loop"
    /\ runs[r].i < runs[r].trade_count
    /\ runs' = [runs EXCEPT ![r] = StepRun(runs[r])]
    /\ UNCHANGED <<single, rng_seed, rng_state>>

ParSummarise(r) ==
    /\ runs[r].pc = "loop"
    /\ runs[r].i >= runs[r].trade_count
    /\ runs' = [runs EXCEPT ![r] = FinishRun(runs[r])]
    /\ UNCHANGED <<single, rng_seed, rng_state>>

NextPar ==
    \/ \E r \in RunIds, ab \in ParBalances, wr \in ParWinRates,
          rr \in ParRewardRisks, rp \in ParRiskPercents, n \in 1..MaxTrades :
          ParRunSimulation(r, ab, wr, rr, rp, n)
    \/ \E r \in RunIds : ParTrade(r)
    \/ \E r \in RunIds : ParSummarise(r)

SpecParallel == InitPar /\ [][NextPar]_vars

\* ----------------------------------------------------------------- claims
\* The parameters of the run are valid: account_balance > 0, risk_percent in
\* (0, 1], reward_risk > 0, trade_count >= 1.
ValidParams ==
    /\ FGt(account_balance, Zero)
    /\ FGt(risk_percent, Zero) /\ FLe(risk_percent, One)
    /\ FGt(reward_risk, Zero)
    /\ trade_count >= 1

FMax(a, b) == IF FGt(b, a) THEN b ELSE a

\* The real-number sum of the P&L of trades 1..k of the ledger.
RECURSIVE ExactPnlSum(_, _)
ExactPnlSum(rows, k) ==
    IF k = 0 THEN Zero ELSE ExactAdd(ExactPnlSum(rows, k - 1), rows[k].PnL)

\* account_balance with the P&L of trades 1..k added one at a time in trade
\* order, every addition rounded to a float.
RECURSIVE RunningBalance(_, _, _)
RunningBalance(ab, rows, k) ==
    IF k = 0 THEN ab ELSE FAdd(RunningBalance(ab, rows, k - 1), rows[k].PnL)

\* C1: in the ledger every trade's post-trade balance is its pre-trade
\* balance plus its P&L, each trade's pre-trade balance is the post-trade
\* balance of the trade before it, and trade 1 starts from account_balance.
C1_LedgerChain ==
    \A k \in 1..Len(results) :
        /\ results[k].AfterBalance
              = FAdd(results[k].PreBalance, results[k].PnL)
        /\ results[k].PreBalance
              = IF k = 1 THEN account_balance ELSE results[k - 1].AfterBalance

\* A full ledger of a returned run in which the balance moved at every trade.
C1_Witness ==
    /\ pc = "returned"
    /\ Len(results) = MaxTrades
    /\ \A k \in 1..Len(results) : results[k].PnL # Zero
    /\ \E k \in 1..Len(results) : results[k].WinLoss = "Loss"
    /\ \E k \in 1..Len(results) : results[k].WinLoss = "Win"

\* C2 as stated: after every trade the balance is account_balance plus the
\* real-number sum of the P&L so far, and the summary's Profit is the
\* real-number sum of all the P&L of the ledger.
C2_ExactSum ==
    /\ \A k \in 1..Len(results) :
          results[k].AfterBalance
             = ExactAdd(account_balance, ExactPnlSum(results, k))
    /\ pc = "returned" => summary.Profit = ExactPnlSum(results, Len(results))

\* C2 as amended: after every trade i the balance is account_balance with the
\* P&L of trades 1..i added one at a time in trade order, each addition
\* rounded to a float, and the summary's Profit is the final balance minus
\* account_balance, rounded; both equal the real-number sums only up to
\* rounding.
C2_RunningSum ==
    /\ Len(results) = i
    /\ current_balance = RunningBalance(account_balance, results, i)
    /\ \A k \in 1..Len(results) :
          results[k].AfterBalance
             = RunningBalance(account_balance, results, k)
    /\ pc = "returned" =>
          /\ summary.FinalBalance
                = RunningBalance(account_balance, results, trade_count)
          /\ summary.Profit = FSub(summary.FinalBalance, account_balance)

\* A returned run whose final balance is not the real-number sum, because an
\* addition was rounded.
C2_Witness ==
    /\ pc = "returned"
    /\ ValidParams
    /\ summary.FinalBalance
          # ExactAdd(account_balance, ExactPnlSum(results, Len(results)))
    /\ summary.Profit # ExactPnlSum(results, Len(results))

\* C3: with valid parameters the Peak Balance of the ledger starts from
\* account_balance, is the larger of the peak before and the balance after
\* each trade, so it never decreases, and every Drawdown is >= 0.
C3_PeakMonotone ==
    ValidParams =>
        \A k \in 1..Len(results) :
            LET before == IF k = 1 THEN account_balance
                          ELSE results[k - 1].PeakBalance
            IN  /\ FGe(results[k].PeakBalance, before)
                /\ results[k].PeakBalance
                      = FMax(before, results[k].AfterBalance)
                /\ FGe(results[k].Drawdown, Zero)

\* A ledger whose peak rose, then stayed while the balance fell below it.
C3_Witness ==
    /\ ValidParams
    /\ Len(results) >= 3
    /\ FGt(results[2].PeakBalance, results[1].PeakBalance)
    /\ results[3].PeakBalance = results[2].PeakBalance
    /\ FLt(results[3].AfterBalance, results[3].PeakBalance)
    /\ FGt(results[3].Drawdown, Zero)

\* C4: the ledger holds one record per finished iteration, numbered 1, 2, ...
\* in order with no gap or repeat; the loop is left only after trade_count
\* iterations, whatever the balance, so the ledger returned has exactly
\* trade_count records, and with valid parameters the run does not raise.
C4_LedgerLength ==
    /\ Len(results) = i
    /\ \A k \in 1..Len(results) : results[k].TradeNumber = k
    /\ i <= trade_count
    /\ pc \in {"returned", "ZeroDivisionError"} => Len(results) = trade_count
    /\ pc = "returned" => summary.Trades = trade_count
    /\ (ValidParams /\ i = trade_count) => pc # "ZeroDivisionError"

\* A returned run of MaxTrades trades whose balance fell to zero on the way.
C4_Witness ==
    /\ pc = "returned"
    /\ ValidParams
    /\ trade_count = MaxTrades
    /\ Len(results) = MaxTrades
    /\ results[2].AfterBalance = Zero

\* C5: every trade's risk amount is the balance held just before the trade
\* times risk_percent, and its P&L is the risk amount times reward_risk on a
\* Win and minus the risk amount on a Loss.
C5_RiskAndPnl ==
    \A k \in 1..Len(results) :
        /\ results[k].RiskAmount = FMul(results[k].PreBalance, risk_percent)
        /\ results[k].WinLoss = "Win" =>
              results[k].PnL = FMul(results[k].RiskAmount, reward_risk)
        /\ results[k].WinLoss = "Loss" =>
              results[k].PnL = FNeg(results[k].RiskAmount)

\* A ledger with a Win and a Loss in which a later trade's risk amount is not
\* the initial balance times risk_percent.
C5_Witness ==
    /\ Len(results) >= 2
    /\ \E k \in 1..Len(results) : results[k].WinLoss = "Win"
    /\ \E k \in 1..Len(results) : results[k].WinLoss = "Loss"
    /\ results[2].RiskAmount # FMul(account_balance, risk_percent)

\* C6: with valid parameters the loss of a losing trade never exceeds the
\* balance held before it, so the balance after every trade is >= 0.
C6_BalanceNeverNegative ==
    ValidParams =>
        /\ FGe(current_balance, Zero)
        /\ \A k \in 1..Len(results) :
              /\ results[k].WinLoss = "Loss" =>
                    FLe(FNeg(results[k].PnL), results[k].PreBalance)
              /\ FGe(results[k].AfterBalance, Zero)

\* A losing trade that risks the whole of a positive balance.
C6_Witness ==
    /\ ValidParams
    /\ \E k \in 1..Len(results) :
          /\ results[k].WinLoss = "Loss"
          /\ FGt(results[k].PreBalance, Zero)
          /\ FNeg(results[k].PnL) = results[k].PreBalance
          /\ results[k].AfterBalance = Zero

\* The P&L of the records of the ledger whose outcome is o, in trade order.
RECURSIVE PnlsOf(_, _)
PnlsOf(rows, o) ==
    IF rows = <<>> THEN <<>>
    ELSE IF Head(rows).WinLoss = o
         THEN <<Head(rows).PnL>> \o PnlsOf(Tail(rows), o)
         ELSE PnlsOf(Tail(rows), o)

AbsAll(xs) == [k \in 1..Len(xs) |-> FAbs(xs[k])]

RECURSIVE FSum(_)
FSum(xs) ==
    IF xs = <<>> THEN Zero
    ELSE FAdd(FSum(SubSeq(xs, 1, Len(xs) - 1)), xs[Len(xs)])

\* The mean of a sequence of floats, 0 for the empty sequence.
MeanOrZero(xs) ==
    IF xs = <<>> THEN Zero ELSE FDiv(FSum(xs), FromInt(Len(xs)))

LedgerAvgWin == MeanOrZero(PnlsOf(results, "Win"))

LedgerAvgLoss == MeanOrZero(AbsAll(PnlsOf(results, "Loss")))

RealizedWinRate == FDiv(FromInt(win_count), FromInt(trade_count))

\* C7: the summary's Expectancy is win_rate * avg_win - (1 - win_rate) *
\* avg_loss with the configured win_rate, avg_win the mean P&L of the Win
\* records (0 if none) and avg_loss the mean absolute P&L of the Loss records
\* (0 if none).
C7_ExpectancyConfiguredRate ==
    pc = "returned" =>
        summary.Expectancy
           = FSub(FMul(win_rate, LedgerAvgWin),
                  FMul(FSub(One, win_rate), LedgerAvgLoss))

\* A returned run with Win and Loss records whose realized win rate is not
\* the configured one and would give another Expectancy.
C7_Witness ==
    /\ pc = "returned"
    /\ win_count > 0 /\ win_count < trade_count
    /\ RealizedWinRate # win_rate
    /\ summary.Expectancy
          # FSub(FMul(RealizedWinRate, LedgerAvgWin),
                 FMul(FSub(One, RealizedWinRate), LedgerAvgLoss))

\* C8: the summary's Expectancy R is Expectancy / avg_loss when avg_loss > 0
\* and 0 otherwise; a run with no Loss record (and a non-zero starting
\* balance) returns with Expectancy R = 0 instead of raising.
C8_ExpectancyRGuard ==
    /\ pc = "returned" =>
          summary.ExpectancyR
             = IF FGt(LedgerAvgLoss, Zero)
               THEN FDiv(summary.Expectancy, LedgerAvgLoss)
               ELSE Zero
    /\ (pc # "loop" /\ i = trade_count /\ trade_count >= 1
          /\ win_count = trade_count /\ account_balance # Zero) =>
          (pc = "returned" /\ summary.ExpectancyR = Zero)

\* A returned run without a Loss record and with a non-zero Expectancy.
C8_Witness ==
    /\ pc = "returned"
    /\ win_count = trade_count
    /\ LedgerAvgLoss = Zero
    /\ summary.Expectancy # Zero
    /\ summary.ExpectancyR = Zero

\* C9 as stated: the break-even win rate reported in the summary is exactly
\* 1 / (1 + reward_risk), that is, times (1 + reward_risk) it is exactly 1.
C9_ExactBreakEven ==
    pc = "returned" =>
        ExactMul(summary.MinimumWinRate, ExactAdd(One, reward_risk)) = One

\* C9 as amended: the summary's Minimum Win Rate is the float quotient
\* 1 / (1 + reward_risk) times 100, a percentage, and depends on reward_risk
\* alone.
C9_BreakEvenPercent ==
    pc = "returned" =>
        summary.MinimumWinRate
           = FMul(FDiv(One, FAdd(One, reward_risk)), Hundred)

\* A returned run with reward_risk = 3: the summary reports 25, not 1/4.
C9_Witness ==
    /\ pc = "returned"
    /\ reward_risk = FromInt(3)
    /\ summary.MinimumWinRate = FromInt(25)
    /\ win_count > 0 /\ win_count < trade_count

\* C10: calculate_losing_streak returns exactly 0 whenever win_rate >= 1.0,
\* whatever the sample size, also one whose logarithm is undefined.
C10_NoStreakAtFullWinRate ==
    (pc = "streak" /\ FGe(streak_win_rate, One)) =>
        losing_streak = [tag |-> "value", val |-> Zero]

\* A call with win_rate = 1.0 and sample size 0 returned 0.
C10_Witness ==
    /\ pc = "streak"
    /\ streak_win_rate = One
    /\ sample_size = 0
    /\ losing_streak = [tag |-> "value", val |-> Zero]

\* C11: calculate_losing_streak returns positive infinity when win_rate = 0,
\* for every sample size >= 1, sample size 1 included, and raises nothing.
C11_InfiniteStreakAtZeroWinRate ==
    (pc = "streak" /\ streak_win_rate = Zero /\ sample_size >= 1) =>
        losing_streak.tag = "inf"

\* A call with win_rate = 0 and sample size 1 returned infinity.
C11_Witness ==
    /\ pc = "streak"
    /\ streak_win_rate = Zero
    /\ sample_size = 1
    /\ losing_streak.tag = "inf"

\* x is the real number `exact` up to the rounding of the float operations
\* that produced it: at most 4 units of roundoff (2^-MantBits) of `scale`.
WithinRounding(x, exact, scale) ==
    FLe(ExactMul(FAbs(ExactAdd(x, FNeg(exact))), <<1, MantBits - 2>>),
        FAbs(scale))

AllOutcomes(o) == pc # "idle" /\ \A k \in 1..Len(outcomes) : outcomes[k] = o

\* C12: in a run with valid parameters in which every outcome is Win, the
\* balance after each trade is the balance before it times
\* (1 + risk_percent * reward_risk) up to float rounding, the peak equals the
\* balance after every trade, every drawdown is 0 and Max Drawdown is 0.
C12_AllWins ==
    (ValidParams /\ AllOutcomes("Win")) =>
        /\ \A k \in 1..Len(results) :
              LET pre   == results[k].PreBalance
                  exact == ExactMul(pre, ExactAdd(One,
                               ExactMul(risk_percent, reward_risk)))
              IN  /\ WithinRounding(results[k].AfterBalance, exact, exact)
                  /\ FGt(results[k].AfterBalance, pre)
                  /\ results[k].PeakBalance = results[k].AfterBalance
                  /\ results[k].Drawdown = Zero
        /\ peak_balance = current_balance
        /\ max_drawdown = Zero
        /\ pc = "returned" => summary.MaxDrawdown = Zero

\* A returned all-Win run of MaxTrades trades with win_rate = 1.0 in which an
\* addition was rounded.
C12_Witness ==
    /\ pc = "returned"
    /\ ValidParams
    /\ win_rate = One
    /\ trade_count = MaxTrades
    /\ win_count = MaxTrades
    /\ summary.MaxDrawdown = Zero
    /\ \E k \in 1..Len(results) :
          results[k].AfterBalance
             # ExactMul(results[k].PreBalance,
                        ExactAdd(One, ExactMul(risk_percent, reward_risk)))

\* C13 as stated (the factor read up to float rounding): in an all-Loss run
\* with valid parameters the balance after each trade is the balance before
\* it times (1 - risk_percent), the peak stays at account_balance, the
\* drawdown strictly increases from each trade to the next and the maximum
\* drawdown stays strictly below 100.
C13_StrictlyBelowHundred ==
    (ValidParams /\ AllOutcomes("Loss")) =>
        /\ \A k \in 1..Len(results) :
              LET pre == results[k].PreBalance
              IN  /\ WithinRounding(results[k].AfterBalance,
                        ExactMul(pre, ExactAdd(One, FNeg(risk_percent))), pre)
                  /\ results[k].PeakBalance = account_balance
                  /\ k > 1 =>
                        FGt(results[k].Drawdown, results[k - 1].Drawdown)
        /\ FLt(max_drawdown, Hundred)

\* C13 as amended: in an all-Loss run with valid parameters the balance after
\* each trade is the balance before it times (1 - risk_percent) up to float
\* rounding, the peak stays at account_balance, the drawdown never decreases
\* from each trade to the next and the maximum drawdown never exceeds 100;
\* with risk_percent = 1 it is exactly 100 from the first trade on.
C13_AllLosses ==
    (ValidParams /\ AllOutcomes("Loss")) =>
        /\ \A k \in 1..Len(results) :
              LET pre == results[k].PreBalance
              IN  /\ WithinRounding(results[k].AfterBalance,
                        ExactMul(pre, ExactAdd(One, FNeg(risk_percent))), pre)
                  /\ results[k].PeakBalance = account_balance
                  /\ FLe(results[k].Drawdown, Hundred)
                  /\ k > 1 =>
                        FGe(results[k].Drawdown, results[k - 1].Drawdown)
                  /\ risk_percent = One => results[k].Drawdown = Hundred
        /\ peak_balance = account_balance
        /\ FLe(max_drawdown, Hundred)
        /\ Len(results) >= 1 =>
              max_drawdown = results[Len(results)].Drawdown

\* A returned all-Loss run with win_rate = 0 and risk_percent = 1: the
\* drawdown is 100 at the first trade and stays there.
C13_Witness ==
    /\ pc = "returned"
    /\ ValidParams
    /\ win_rate = Zero
    /\ risk_percent = One
    /\ Len(results) >= 2
    /\ results[1].Drawdown = Hundred
    /\ results[2].Drawdown = Hundred
    /\ summary.MaxDrawdown = Hundred

\* What run_simulation returns when it runs alone after np.random.seed(s).
RECURSIVE StepsAlone(_, _)
StepsAlone(run, n) == IF n = 0 THEN run ELSE StepsAlone(StepRun(run), n - 1)

AloneRun(s, ab, wr, rr, rp, n) ==
    FinishRun(StepsAlone(StartRun(s, ab, wr, rr, rp, n), n))

C15_DrawdownGuard ==
    \A k \in 1..Len(results) :
        LET peak == results[k].PeakBalance
            post == results[k].AfterBalance
        IN  results[k].Drawdown
               = IF FGt(peak, Zero)
                 THEN FMul(FDiv(FSub(peak, post), peak), Hundred)
                 ELSE Zero

\* A trade from a negative starting balance: the peak is negative, the
\* balance is below it, and the drawdown recorded is 0.
C15_Witness ==
    /\ FLt(account_balance, Zero)
    /\ \E k \in 1..Len(results) :
          /\ FLt(results[k].PeakBalance, Zero)
          /\ FLt(results[k].AfterBalance, results[k].PeakBalance)
          /\ results[k].Drawdown = Zero

\* The largest Drawdown among the first k records of the ledger, 0 if none.
RECURSIVE LargestDrawdown(_, _)
LargestDrawdown(rows, k) ==
    IF k = 0 THEN Zero
    ELSE FMax(LargestDrawdown(rows, k - 1), rows[k].Drawdown)

\* C16: the running maximum drawdown is the largest Drawdown recorded so far
\* (0 when every recorded drawdown is 0), it never decreases during the run,
\* and the summary's Max Drawdown is the largest Drawdown of the ledger.
C16_MaxDrawdownIsLargest ==
    /\ [](/\ max_drawdown = LargestDrawdown(results, Len(results))
          /\ \A k \in 1..Len(results) : FGe(max_drawdown, results[k].Drawdown)
          /\ pc = "returned" =>
                summary.MaxDrawdown = LargestDrawdown(results, trade_count))
    /\ [][FGe(max_drawdown', max_drawdown)]_vars

\* A returned run whose largest drawdown is not the last one recorded.
C16_Witness ==
    /\ pc = "returned"
    /\ Len(results) >= 3
    /\ FGt(summary.MaxDrawdown, results[Len(results)].Drawdown)
    /\ \E k \in 1..Len(results) : summary.MaxDrawdown = results[k].Drawdown
    /\ FGt(summary.MaxDrawdown, results[1].Drawdown)

====
